---- MODULE Spec2Model ----
(***************************************************************************)
(* A model of manim_mcp_server: the in-memory project store, the five MCP  *)
(* tool handlers of server.py, the scene-code assembler generate_scene_code*)
(* and the renderer invocation run_manim.                                  *)
(*                                                                         *)
(* Python strings are sequences of one-character strings; fixed literal    *)
(* fragments that are never split or compared character-wise (template     *)
(* lines, message texts, directory names) are kept as one token each.      *)
(* File-name fragments ("proj_", "_preview", ".py", ...) are spelled out   *)
(* character by character, so that two names are equal in the model        *)
(* exactly when the Python strings are equal.                              *)
(***************************************************************************)
EXTENDS Integers, Sequences, FiniteSets, TLC

VARIABLES
    projects,   \* server.py:13  projects: dict[str, Project]
    files,      \* the files under settings.code_dir written by write_text
    last,       \* the tool call just served: arguments, effects, outcome
    rin,        \* SpecRun: the arguments of the run_manim call just made
    renv,       \* SpecRun: what the subprocess and the filesystem did
    rout,       \* SpecRun: the tuple run_manim returned
    rprev       \* SpecRun: the preview or render call made before this one

vars == <<projects, files, last, rin, renv, rout, rprev>>

-----------------------------------------------------------------------------
(* Bounds of the model *)

\* how many segments the store may hold before add_segment is no longer tried
MaxSegments == 2

-----------------------------------------------------------------------------
(* Python values *)

None == <<"None">>

\* bool(s) of a str | None
Truthy(s) == s # None /\ s # <<>>

NL == "\n"
Whitespace == {" ", NL, "\t"}

\* bool(line.strip())
StripTruthy(line) == \E i \in 1..Len(line) : line[i] \notin Whitespace

\* str.split(sep) for a one-character separator
RECURSIVE split(_, _)
split(s, sep) ==
    IF \A i \in 1..Len(s) : s[i] # sep
    THEN <<s>>
    ELSE LET k == CHOOSE i \in 1..Len(s) :
                     s[i] = sep /\ \A j \in 1..(i - 1) : s[j] # sep
         IN  <<SubSeq(s, 1, k - 1)>> \o split(SubSeq(s, k + 1, Len(s)), sep)

\* sep.join(xs)
RECURSIVE join(_, _)
join(sep, xs) ==
    IF xs = <<>> THEN <<>>
    ELSE IF Len(xs) = 1 THEN xs[1]
    ELSE xs[1] \o sep \o join(sep, Tail(xs))

HexDigits == <<"0", "1", "2", "3", "4", "5", "6", "7",
               "8", "9", "a", "b", "c", "d", "e", "f">>

\* the first w hexadecimal digits of a uuid whose leading 4*w bits are n
RECURSIVE HexStr(_, _)
HexStr(n, w) ==
    IF w = 0 THEN <<>>
    ELSE HexStr(n \div 16, w - 1) \o <<HexDigits[(n % 16) + 1]>>

\* hasattr(obj, a) on a pydantic model instance
HasAttr(obj, a) == a \in DOMAIN obj

-----------------------------------------------------------------------------
(* models.py *)

HexLen == 8

SegPrefix == <<"s", "e", "g", "_">>
ProjPrefix == <<"p", "r", "o", "j", "_">>

\* Segment(manim_code=..., description=..., code_type=...): the model declares
\* id, description and manim_code only, and pydantic's default extra="ignore"
\* drops every other keyword, code_type included.
Segment(manim_code, description, code_type, uuid) ==
    [id          |-> SegPrefix \o HexStr(uuid, HexLen),
     description |-> description,
     manim_code  |-> manim_code]

\* Project(name=..., quality=..., background_color=...); created_at is a
\* timestamp nothing reads and is left out.
Project(name, quality, background_color, uuid) ==
    [id               |-> ProjPrefix \o HexStr(uuid, HexLen),
     name             |-> name,
     quality          |-> quality,
     background_color |-> background_color,
     segments         |-> <<>>]

-----------------------------------------------------------------------------
(* config.py *)

PROJECT_ROOT == << <<"PROJECT_ROOT">> >>

\* a pathlib.Path is the sequence of its parts
output_dir == PROJECT_ROOT
code_dir == PROJECT_ROOT \o << <<"code">> >>
timeout == 300

\* str(path)
PathStr(p) == join(<<"/">>, p)

-----------------------------------------------------------------------------
(* server.py: generate_scene_code *)

IndentSpaces == 8

ImportLine == <<"from manim import *">>
ClassLine == <<"class GeneratedScene(Scene):">>
DefLine == <<"    def construct(self):">>

Return(v) == [kind |-> "return", value |-> v]
Raise(e) == [kind |-> "raise", exc |-> e]

indent_code(code, spaces) ==
    LET indent == [i \in 1..spaces |-> " "]
        lines == split(code, NL)
    IN  join(<<NL>>, [i \in 1..Len(lines) |->
                        IF StripTruthy(lines[i]) THEN indent \o lines[i]
                        ELSE lines[i]])

\* the codes of the segments of segs tagged t, in order
CodesTagged(segs, t) ==
    LET sel == SelectSeq(segs, LAMBDA s : s.code_type = t)
    IN  [i \in 1..Len(sel) |-> sel[i].manim_code]

SelectSegments(project, segment_id) ==
    IF Truthy(segment_id)
    THEN SelectSeq(project.segments, LAMBDA s : s.id = segment_id)
    ELSE project.segments

generate_scene_code(project, segment_id) ==
    LET segments == SelectSegments(project, segment_id)
    IN  IF \E i \in 1..Len(segments) : ~HasAttr(segments[i], "code_type")
        THEN Raise("AttributeError")
        ELSE
        LET preamble_segments == CodesTagged(segments, "preamble")
            construct_segments == CodesTagged(segments, "construct")
            preamble_code == join(<<NL, NL>>, preamble_segments)
            construct_code ==
                join(<<NL, NL>>,
                     [i \in 1..Len(construct_segments) |->
                        indent_code(construct_segments[i], IndentSpaces)])
            parts == <<ImportLine>>
                     \o (IF preamble_code # <<>> THEN <<preamble_code>> ELSE <<>>)
                     \o <<ClassLine \o <<NL>> \o DefLine \o <<NL>> \o construct_code>>
        IN  Return(join(<<NL, NL>>, parts) \o <<NL>>)

-----------------------------------------------------------------------------
(* server.py: run_manim *)

DotPy == <<".", "p", "y">>
DotPng == <<".", "p", "n", "g">>
DotMp4 == <<".", "m", "p", "4">>
SufPreview == <<"_", "p", "r", "e", "v", "i", "e", "w">>
SufFinal == <<"_", "f", "i", "n", "a", "l">>

SceneName == <<"GeneratedScene">>

KnownQualities == {"low_quality", "medium_quality", "high_quality", "fourk_quality"}

\* quality_map.get(quality, ("m", "720p30"))
QualityMap(quality) ==
    CASE quality = "low_quality"    -> [flag |-> <<"l">>, folder |-> <<"480p15">>]
      [] quality = "medium_quality" -> [flag |-> <<"m">>, folder |-> <<"720p30">>]
      [] quality = "high_quality"   -> [flag |-> <<"h">>, folder |-> <<"1080p60">>]
      [] quality = "fourk_quality"  -> [flag |-> <<"k">>, folder |-> <<"2160p60">>]
      [] OTHER                      -> [flag |-> <<"m">>, folder |-> <<"720p30">>]

\* the argument vector handed to subprocess.run
ManimCmd(scene_file, output_name, quality, preview_mode) ==
    << <<"manim">>, <<"render">>, PathStr(scene_file), SceneName,
       <<"-q">>, QualityMap(quality).flag, <<"-o">>, output_name,
       <<"--media_dir">>, PathStr(output_dir) >>
    \o (IF preview_mode THEN << <<"-s">> >> ELSE <<>>)

\* where Manim is expected to have put the artifact
OutputPath(output_name, quality, preview_mode) ==
    IF preview_mode
    THEN output_dir \o << <<"images">>, SceneName, output_name \o DotPng >>
    ELSE output_dir \o << <<"videos">>, SceneName, QualityMap(quality).folder,
                          output_name \o DotMp4 >>

\* What the world does during one run_manim call: subprocess.run returns with
\* an exit code and a captured stderr, or raises TimeoutExpired, or raises
\* something else; exists is what output_path.exists() then answers.
StderrTexts == {<<>>, <<"b", "o", "o", "m">>}
ExcTexts == {<<"n", "o", " ", "m", "a", "n", "i", "m">>}
RunEnvs ==
    [kind : {"exit"}, returncode : {0, 1}, stderr : StderrTexts, exists : BOOLEAN]
    \cup [kind : {"timeout"}]
    \cup [kind : {"exception"}, text : ExcTexts]

\* str(n) of a non-negative int
RECURSIVE DecStr(_)
DecStr(n) ==
    IF n < 10 THEN <<HexDigits[n + 1]>>
    ELSE DecStr(n \div 10) \o <<HexDigits[(n % 10) + 1]>>

RunResult(success, message, output_path) ==
    [success |-> success, message |-> message, output_path |-> output_path]

\* run_manim with the output_path.exists() test left out
run_manim_NoExistsCheck(scene_file, output_name, quality, preview_mode, env) ==
    CASE env.kind = "timeout" ->
           RunResult(FALSE, <<"Render timed out after ">> \o DecStr(timeout)
                            \o <<" seconds">>, None)
      [] env.kind = "exception" ->
           RunResult(FALSE, <<"Unexpected error: ">> \o env.text, None)
      [] env.kind = "exit" /\ env.returncode # 0 ->
           RunResult(FALSE, <<"Manim error: ">> \o env.stderr, None)
      [] env.kind = "exit" /\ env.returncode = 0 ->
           RunResult(TRUE, <<"Render successful">>,
                     PathStr(OutputPath(output_name, quality, preview_mode)))

run_manim(scene_file, output_name, quality, preview_mode, env) ==
    CASE env.kind = "timeout" ->
           RunResult(FALSE, <<"Render timed out after ">> \o DecStr(timeout)
                            \o <<" seconds">>, None)
      [] env.kind = "exception" ->
           RunResult(FALSE, <<"Unexpected error: ">> \o env.text, None)
      [] env.kind = "exit" /\ env.returncode # 0 ->
           RunResult(FALSE, <<"Manim error: ">> \o env.stderr, None)
      [] env.kind = "exit" /\ env.returncode = 0 ->
           LET output_path == OutputPath(output_name, quality, preview_mode)
           IN  IF env.exists
               THEN RunResult(TRUE, <<"Render successful">>, PathStr(output_path))
               ELSE RunResult(FALSE, <<"Render completed but output not found at ">>
                                     \o PathStr(output_path), None)

-----------------------------------------------------------------------------
(* server.py: the tool handlers.  Each handler is an operator from the store, *)
(* the program files, its arguments and what the world does during the call  *)
(* to the new store, the new files, the effects in order and the outcome.    *)

Served(store, fs, effects, outcome) ==
    [projects |-> store, files |-> fs, effects |-> effects, outcome |-> outcome]

Err(message) == Return([error |-> message])

WriteEv(path, text) == [ev |-> "write_text", path |-> path, text |-> text]
RunEv(cmd) == [ev |-> "subprocess.run", cmd |-> cmd]

\* fs after path.write_text(text)
WriteText(fs, path, text) ==
    [p \in DOMAIN fs \cup {path} |-> IF p = path THEN text ELSE fs[p]]

\* projects[project.id] = project
StoreProject(store, project) ==
    [p \in DOMAIN store \cup {project.id} |->
        IF p = project.id THEN project ELSE store[p]]

create_project(store, fs, name, quality, background_color, uuid) ==
    LET project == Project(name, quality, background_color, uuid)
    IN  Served(StoreProject(store, project), fs, <<>>,
               Return([project_id       |-> project.id,
                       name             |-> project.name,
                       quality          |-> project.quality,
                       background_color |-> project.background_color,
                       message          |-> <<"Project ">> \o project.name
                                            \o <<" created successfully">>]))

CodeTypes == {"construct", "preamble"}

add_segment(store, fs, project_id, manim_code, description, code_type, uuid) ==
    IF project_id \notin DOMAIN store
    THEN Served(store, fs, <<>>,
                Err(<<"Project with ID ">> \o project_id \o <<" not found">>))
    ELSE IF code_type \notin CodeTypes
    THEN Served(store, fs, <<>>,
                Err(<<"Invalid code_type '", code_type,
                      "'. Must be 'construct' or 'preamble'">>))
    ELSE
    LET segment == Segment(manim_code, description, code_type, uuid)
        segs == Append(store[project_id].segments, segment)
    IN  Served([store EXCEPT ![project_id].segments = segs], fs, <<>>,
               Return([segment_id     |-> segment.id,
                       project_id     |-> project_id,
                       code_type      |-> code_type,
                       total_segments |-> Len(segs),
                       message        |-> <<"Segment added successfully">>]))

\* the handlers with the empty-project test left out
NoSegments_Skipped(project) == FALSE

\* not project.segments
NoSegments(project) == project.segments = <<>>

preview_scene_file(project) == code_dir \o <<project.id \o SufPreview \o DotPy>>
preview_output_name(project) == project.id \o SufPreview
\* render writing its program under the preview's name
render_scene_file_PreviewSuffix(project) ==
    code_dir \o <<project.id \o SufPreview \o DotPy>>
render_scene_file(project) == code_dir \o <<project.id \o SufFinal \o DotPy>>
render_output_name(project) == project.id

\* What the world does during one preview or render call: write_text raises
\* OSError, or it succeeds and the renderer then does one of the things that
\* run_manim tells apart.
HandlerRunEnvs ==
    {[kind |-> "exit", returncode |-> 1, stderr |-> e, exists |-> FALSE] :
        e \in StderrTexts}
    \cup {[kind |-> "exit", returncode |-> 0, stderr |-> <<>>, exists |-> x] :
        x \in BOOLEAN}
    \cup [kind : {"timeout"}]
    \cup [kind : {"exception"}, text : ExcTexts]
CallEnvs ==
    [write : {"ok"}, run : HandlerRunEnvs]
    \cup [write : {"OSError"}, run : [kind : {"timeout"}]]

\* lines 186-196 and 259-268: assemble, write the program file, run Manim;
\* the outcome is an exception on its way out of the handler or the tuple
\* run_manim returned
AssembleAndRun(store, fs, project, segment_id, scene_file, output_name, preview_mode, env) ==
    LET scene == generate_scene_code(project, segment_id)
    IN  IF scene.kind = "raise"
        THEN Served(store, fs, <<>>, scene)
        ELSE IF env.write # "ok"
        THEN Served(store, fs, <<>>, Raise(env.write))
        ELSE Served(store, WriteText(fs, scene_file, scene.value),
                    <<WriteEv(scene_file, scene.value),
                      RunEv(ManimCmd(scene_file, output_name, project.quality,
                                     preview_mode))>>,
                    Return(run_manim(scene_file, output_name, project.quality,
                                     preview_mode, env.run)))

PreviewResponse(project_id, path) ==
    Return([preview_path |-> path,
            project_id   |-> project_id,
            message      |-> <<"Preview generated successfully">>])

preview(store, fs, project_id, segment_id, env) ==
    IF project_id \notin DOMAIN store
    THEN Served(store, fs, <<>>,
                Err(<<"Project '">> \o project_id \o <<"' not found">>))
    ELSE IF NoSegments(store[project_id])
    THEN Served(store, fs, <<>>,
                Err(<<"Project has no segments. Use add_segment first">>))
    ELSE
    LET project == store[project_id]
        ran == AssembleAndRun(store, fs, project, segment_id,
                              preview_scene_file(project),
                              preview_output_name(project), TRUE, env)
    IN  IF ran.outcome.kind = "raise" THEN ran
        ELSE IF ~ran.outcome.value.success
        THEN [ran EXCEPT !.outcome = Err(ran.outcome.value.message)]
        ELSE [ran EXCEPT !.outcome =
                PreviewResponse(project_id, ran.outcome.value.output_path)]

\* next((s for s in segments if s.id == segment_id), None), as an index; 0 is None
FindSegment(segments, segment_id) ==
    IF \E i \in 1..Len(segments) : segments[i].id = segment_id
    THEN CHOOSE i \in 1..Len(segments) :
            /\ segments[i].id = segment_id
            /\ \A j \in 1..(i - 1) : segments[j].id # segment_id
    ELSE 0

\* edit_segment assigning the description whether or not one was supplied
EditFields_AlwaysDescription(segment, manim_code, description) ==
    [segment EXCEPT !.manim_code = manim_code, !.description = description]

\* lines 233-236
EditFields(segment, manim_code, description) ==
    [segment EXCEPT !.manim_code = manim_code,
                    !.description = IF description # None THEN description ELSE @]

edit_segment(store, fs, project_id, segment_id, manim_code, description) ==
    IF project_id \notin DOMAIN store
    THEN Served(store, fs, <<>>,
                Err(<<"Project '">> \o project_id \o <<"' not found">>))
    ELSE
    LET segments == store[project_id].segments
        i == FindSegment(segments, segment_id)
    IN  IF i = 0
        THEN Served(store, fs, <<>>,
                    Err(<<"Segment '">> \o segment_id \o <<"' not found">>))
        ELSE Served([store EXCEPT ![project_id].segments[i] =
                           EditFields(segments[i], manim_code, description)],
                    fs, <<>>,
                    Return([segment_id |-> segments[i].id,
                            message    |-> <<"Segment updated successfully">>]))

RenderResponse(path) ==
    Return([video_path |-> path,
            message    |-> <<"Video rendered: ">> \o path])

render(store, fs, project_id, env) ==
    IF project_id \notin DOMAIN store
    THEN Served(store, fs, <<>>,
                Err(<<"Project '">> \o project_id \o <<"' not found">>))
    ELSE IF NoSegments(store[project_id])
    THEN Served(store, fs, <<>>,
                Err(<<"Project has no segments. Use add_segment first.">>))
    ELSE
    LET project == store[project_id]
        ran == AssembleAndRun(store, fs, project, None,
                              render_scene_file(project),
                              render_output_name(project), FALSE, env)
    IN  IF ran.outcome.kind = "raise" THEN ran
        ELSE IF ~ran.outcome.value.success
        THEN [ran EXCEPT !.outcome = Err(ran.outcome.value.message)]
        ELSE [ran EXCEPT !.outcome = RenderResponse(ran.outcome.value.output_path)]

-----------------------------------------------------------------------------
(* The arguments the clients send *)

\* the leading 32 bits of the uuids the generator hands out; a value may be
\* handed out twice, as uuid4 may
Uuids == {10, 255}

ProjectIds == {ProjPrefix \o HexStr(u, HexLen) : u \in Uuids}
SegmentIds == {SegPrefix \o HexStr(u, HexLen) : u \in Uuids}

\* the identities a client can have learnt; one names an absent project or
\* segment as long as the generator has not produced it
ProjectIdArgs == ProjectIds
SegmentIdArgs == SegmentIds

Names == {<<"D", "e", "m", "o">>}
\* create_project's default; run_manim is tried on every quality in SpecRun
Qualities == {"medium_quality"}
RunQualities == KnownQualities \cup {"ultra"}
Codes == {<<"a">>, <<"b", NL, " ">>}
CodeTypeArgs == CodeTypes \cup {"bogus"}
NewDescription == <<"d">>

-----------------------------------------------------------------------------
(* The server: one action per tool call *)

RECURSIVE SumLen(_, _)
SumLen(store, ids) ==
    IF ids = {} THEN 0
    ELSE LET p == CHOOSE x \in ids : TRUE
         IN  Len(store[p].segments) + SumLen(store, ids \ {p})

TotalSegments(store) == SumLen(store, DOMAIN store)

Call(op, args, r) ==
    /\ projects' = r.projects
    /\ files' = r.files
    /\ last' = [op |-> op, args |-> args, effects |-> r.effects,
                outcome |-> r.outcome]
    /\ UNCHANGED <<rin, renv, rout, rprev>>

NoRun == [op |-> "none"]

Init ==
    /\ projects = <<>>
    /\ files = <<>>
    /\ last = [op |-> "none", args |-> <<>>, effects |-> <<>>,
               outcome |-> Return(None)]
    /\ rin = NoRun
    /\ renv = NoRun
    /\ rout = NoRun
    /\ rprev = NoRun

CreateProject ==
    \E name \in Names, quality \in Qualities, uuid \in Uuids :
        Call("create_project", [name |-> name, quality |-> quality],
             create_project(projects, files, name, quality, None, uuid))

AddSegment ==
    \E project_id \in ProjectIdArgs, manim_code \in Codes,
       code_type \in CodeTypeArgs, uuid \in Uuids :
        /\ TotalSegments(projects) < MaxSegments
        /\ Call("add_segment",
                [project_id |-> project_id, manim_code |-> manim_code,
                 code_type |-> code_type],
                add_segment(projects, files, project_id, manim_code, <<>>,
                            code_type, uuid))

Preview ==
    \E project_id \in ProjectIdArgs, segment_id \in SegmentIdArgs \cup {None},
       env \in CallEnvs :
        Call("preview", [project_id |-> project_id, segment_id |-> segment_id],
             preview(projects, files, project_id, segment_id, env))

EditSegment ==
    \E project_id \in ProjectIdArgs, segment_id \in SegmentIdArgs,
       manim_code \in Codes, description \in {None, NewDescription} :
        Call("edit_segment",
             [project_id |-> project_id, segment_id |-> segment_id,
              manim_code |-> manim_code, description |-> description],
             edit_segment(projects, files, project_id, segment_id, manim_code,
                          description))

Render ==
    \E project_id \in ProjectIdArgs, env \in CallEnvs :
        Call("render", [project_id |-> project_id],
             render(projects, files, project_id, env))

Next ==
    \/ CreateProject
    \/ AddSegment
    \/ Preview
    \/ EditSegment
    \/ Render

Spec == Init /\ [][Next]_vars

-----------------------------------------------------------------------------
(* The file naming and the renderer invocation on their own: lines 188-196 of *)
(* preview and 260-268 of render, applied to any project identity, quality   *)
(* and renderer behaviour, one call after another.                           *)

RunCall(op, project, scene_file, output_name, preview_mode, env) ==
    /\ rin' = [op |-> op, project_id |-> project.id, scene_file |-> scene_file,
               output_name |-> output_name, quality |-> project.quality,
               preview_mode |-> preview_mode]
    /\ renv' = env
    /\ rout' = run_manim(scene_file, output_name, project.quality,
                         preview_mode, env)
    /\ rprev' = rin
    /\ UNCHANGED <<projects, files, last>>

RunPreview ==
    \E name \in Names, quality \in RunQualities, uuid \in Uuids, env \in RunEnvs :
        LET project == Project(name, quality, None, uuid)
        IN  RunCall("preview", project, preview_scene_file(project),
                    preview_output_name(project), TRUE, env)

RunRender ==
    \E name \in Names, quality \in RunQualities, uuid \in Uuids, env \in RunEnvs :
        LET project == Project(name, quality, None, uuid)
        IN  RunCall("render", project, render_scene_file(project),
                    render_output_name(project), FALSE, env)

NextRun ==
    \/ RunPreview
    \/ RunRender

SpecRun == Init /\ [][NextRun]_vars

-----------------------------------------------------------------------------
(* Helpers of the properties *)

\* sub occurs in s as a contiguous run
Contains(s, sub) ==
    \E i \in 0..(Len(s) - Len(sub)) : SubSeq(s, i + 1, i + Len(sub)) = sub

\* the first position at or after from where sub occurs in s; 0 if none
FirstAt(s, sub, from) ==
    LET hits == {i \in from..(Len(s) - Len(sub) + 1) :
                    SubSeq(s, i, i + Len(sub) - 1) = sub}
    IN  IF hits = {} THEN 0
        ELSE CHOOSE i \in hits : \A j \in hits : i <= j

\* the strings of subs occur in s one after another, in this order
RECURSIVE InOrder(_, _, _)
InOrder(s, subs, from) ==
    IF subs = <<>> THEN TRUE
    ELSE LET k == FirstAt(s, subs[1], from)
         IN  k # 0 /\ InOrder(s, Tail(subs), k + Len(subs[1]))

\* a response that is a mapping with the single field error
IsErrorMapping(outcome) ==
    outcome.kind = "return" /\ DOMAIN outcome.value = {"error"}

IsNotFound(outcome, what, id) ==
    /\ IsErrorMapping(outcome)
    /\ outcome.value.error = <<what>> \o id \o <<"' not found">>

IsNoSegments(outcome) ==
    /\ IsErrorMapping(outcome)
    /\ outcome.value.error \in
         {<<"Project has no segments. Use add_segment first">>,
          <<"Project has no segments. Use add_segment first.">>}

\* every line of code that is not blank, behind exactly the margin; blank
\* lines as they are
Margin == [i \in 1..8 |-> " "]
Indented(code) ==
    LET lines == split(code, NL)
    IN  join(<<NL>>, [i \in 1..Len(lines) |->
                        IF \A j \in 1..Len(lines[i]) : lines[i][j] \in Whitespace
                        THEN lines[i] ELSE Margin \o lines[i]])

-----------------------------------------------------------------------------
(* C1 *)

\* C1: for every stored project with segments, generate_scene_code without a
\* target returns a program in which the preamble-tagged segments' code stands
\* in order before the class line and the construct-tagged segments' code, each
\* non-blank line behind exactly 8 spaces, stands in order after the method line.
C1_AssemblyPlacesSegments ==
    \A pid \in DOMAIN projects :
        LET segs == projects[pid].segments
            r == generate_scene_code(projects[pid], None)
        IN  segs # <<>> =>
            /\ r.kind = "return"
            /\ \A i \in 1..Len(segs) : HasAttr(segs[i], "code_type")
            /\ LET k == FirstAt(r.value, ClassLine, 1)
                   d == FirstAt(r.value, DefLine, 1)
                   pre == CodesTagged(segs, "preamble")
                   con == CodesTagged(segs, "construct")
               IN  /\ k # 0 /\ d > k
                   /\ InOrder(SubSeq(r.value, 1, k - 1), pre, 1)
                   /\ InOrder(SubSeq(r.value, d + 1, Len(r.value)),
                              [i \in 1..Len(con) |-> Indented(con[i])], 1)

-----------------------------------------------------------------------------
(* C2 *)

\* C2: a preview whose target segment identity no segment of the existing,
\* non-empty project carries ends in a not-found error mapping, having
\* assembled no program, written no program file and run no renderer.
C2_UnknownTargetFails ==
    (/\ last.op = "preview"
     /\ last.args.project_id \in DOMAIN projects
     /\ projects[last.args.project_id].segments # <<>>
     /\ Truthy(last.args.segment_id)
     /\ FindSegment(projects[last.args.project_id].segments,
                    last.args.segment_id) = 0)
    => /\ IsNotFound(last.outcome, "Segment '", last.args.segment_id)
       /\ last.effects = <<>>

-----------------------------------------------------------------------------
(* C3 *)

\* C3: no tool call ends by raising; every call returns a mapping.
C3_NoUncaughtException == last.outcome.kind = "return"

-----------------------------------------------------------------------------
(* C5 *)

\* C5: every stored segment carries a placement tag that is preamble or
\* construct, and the segment an add_segment call appended carries the tag the
\* call supplied.
C5_SegmentsCarrySuppliedTag ==
    /\ \A pid \in DOMAIN projects :
          \A i \in 1..Len(projects[pid].segments) :
             /\ HasAttr(projects[pid].segments[i], "code_type")
             /\ projects[pid].segments[i].code_type \in CodeTypes
    /\ (last.op = "add_segment" /\ ~IsErrorMapping(last.outcome))
       => LET segs == projects[last.args.project_id].segments
          IN  /\ Len(segs) = last.outcome.value.total_segments
              /\ segs[Len(segs)].id = last.outcome.value.segment_id
              /\ segs[Len(segs)].code_type = last.args.code_type

-----------------------------------------------------------------------------
(* C8 *)

\* C8: for every segment S of every stored project, generate_scene_code with
\* S's identity as target returns the program text it returns, without a
\* target, for a project whose only segment is S.
C8_TargetEqualsSingleton ==
    \A pid \in DOMAIN projects :
        \A i \in 1..Len(projects[pid].segments) :
            LET S == projects[pid].segments[i]
                one == generate_scene_code(projects[pid], S.id)
                alone == generate_scene_code(
                            [projects[pid] EXCEPT !.segments = <<S>>], None)
            IN  /\ one.kind = "return"
                /\ alone.kind = "return"
                /\ one.value = alone.value

-----------------------------------------------------------------------------
(* C10 *)

\* C10: a preview or render call on an existing project with segments has
\* written the program file once, then run the renderer once, and has returned
\* a mapping.
C10_WriteOnceThenRunOnce ==
    (/\ last.op \in {"preview", "render"}
     /\ last.args.project_id \in DOMAIN projects
     /\ projects[last.args.project_id].segments # <<>>)
    => /\ Len(last.effects) = 2
       /\ last.effects[1].ev = "write_text"
       /\ last.effects[2].ev = "subprocess.run"
       /\ last.outcome.kind = "return"

-----------------------------------------------------------------------------
(* C4 *)

\* C4: run_manim reports success, with the artifact path, exactly when the
\* renderer exited with code zero and the computed path exists; otherwise it
\* reports failure with no path and a message naming the cause: the captured
\* stderr after a non-zero exit, the configured timeout after a timeout, the
\* generic text after any other exception, the missing path after a zero exit
\* that left no file.
C4_RunManimClassifies ==
    rin # NoRun =>
    LET zero == renv.kind = "exit" /\ renv.returncode = 0
        path == PathStr(OutputPath(rin.output_name, rin.quality, rin.preview_mode))
    IN  /\ rout.success <=> (zero /\ renv.exists)
        /\ rout.success => rout.output_path = path
        /\ ~rout.success => rout.output_path = None
        /\ (renv.kind = "exit" /\ renv.returncode # 0)
             => rout.message = <<"Manim error: ">> \o renv.stderr
        /\ renv.kind = "timeout"
             => Contains(rout.message, DecStr(timeout) \o <<" seconds">>)
        /\ renv.kind = "exception"
             => rout.message[1] = "Unexpected error: "
        /\ (zero /\ ~renv.exists)
             => /\ Contains(rout.message, path)
                /\ rout.message[1] = "Render completed but output not found at "

\* a renderer that exited with code zero and left no file at the expected path
C4_Witness ==
    /\ rin # NoRun
    /\ renv.kind = "exit" /\ renv.returncode = 0 /\ ~renv.exists
    /\ ~rout.success

-----------------------------------------------------------------------------
(* C6 *)

\* what an edit_segment call with these arguments may have done to the store
C6_Step(project_id, segment_id, manim_code, description) ==
    /\ files' = files
    /\ DOMAIN projects' = DOMAIN projects
    /\ \A q \in DOMAIN projects : q # project_id => projects'[q] = projects[q]
    /\ project_id \notin DOMAIN projects
         => IsNotFound(last'.outcome, "Project '", project_id)
    /\ project_id \in DOMAIN projects =>
        LET old == projects[project_id].segments
            new == projects'[project_id].segments
        IN  /\ projects'[project_id] = [projects[project_id] EXCEPT !.segments = new]
            /\ Len(new) = Len(old)
            /\ \A i \in 1..Len(old) :
                  /\ DOMAIN new[i] = DOMAIN old[i]
                  /\ \A a \in DOMAIN old[i] \ {"manim_code", "description"} :
                        new[i][a] = old[i][a]
            /\ IF \E i \in 1..Len(old) : old[i].id = segment_id
               THEN /\ \E k \in 1..Len(old) :
                          /\ old[k].id = segment_id
                          /\ new[k].manim_code = manim_code
                          /\ new[k].description =
                                IF description # None THEN description
                                ELSE old[k].description
                          /\ \A i \in 1..Len(old) : i # k => new[i] = old[i]
                    /\ ~IsErrorMapping(last'.outcome)
                    /\ last'.outcome.kind = "return"
               ELSE /\ new = old
                    /\ IsNotFound(last'.outcome, "Segment '", segment_id)

\* C6: an edit_segment call leaves the number, order, identities and every
\* other attribute of the project's segments as they were; with a segment id
\* that exists it replaces that one segment's code, and its description when
\* one is supplied; with one that does not exist it returns a not-found error
\* mapping and changes nothing.
C6_EditFrame ==
    [][last'.op = "edit_segment"
         => C6_Step(last'.args.project_id, last'.args.segment_id,
                    last'.args.manim_code, last'.args.description)]_vars

\* an edit of one of two segments that supplied no description, after an
\* earlier edit had given that segment one
C6_Witness ==
    /\ last.op = "edit_segment"
    /\ ~IsErrorMapping(last.outcome)
    /\ last.args.description = None
    /\ LET segs == projects[last.args.project_id].segments
       IN  /\ Len(segs) = 2
           /\ segs[1].id # segs[2].id
           /\ segs[2].id = last.args.segment_id
           /\ segs[2].description = NewDescription
           /\ segs[2].manim_code = last.args.manim_code
           /\ segs[1].manim_code # last.args.manim_code

-----------------------------------------------------------------------------
(* C7 *)

\* C7: a preview or render call on an existing project with zero segments
\* returns the no-segments error mapping, and on a project identity absent
\* from the store the not-found error mapping; either way it writes no file
\* and runs no renderer.
C7_EmptyOrAbsentRejected ==
    [][(/\ last'.op \in {"preview", "render"}
        /\ \/ last'.args.project_id \notin DOMAIN projects
           \/ projects[last'.args.project_id].segments = <<>>)
       => /\ IF last'.args.project_id \in DOMAIN projects
             THEN IsNoSegments(last'.outcome)
             ELSE IsNotFound(last'.outcome, "Project '", last'.args.project_id)
          /\ last'.effects = <<>>
          /\ files' = files
          /\ projects' = projects]_vars

\* a render call on a stored project that has no segments, beside a project
\* that has some
C7_Witness ==
    /\ last.op = "render"
    /\ last.args.project_id \in DOMAIN projects
    /\ projects[last.args.project_id].segments = <<>>
    /\ IsNoSegments(last.outcome)
    /\ \E q \in DOMAIN projects : projects[q].segments # <<>>

-----------------------------------------------------------------------------
(* C9 *)

ModeSuffix(op) == IF op = "preview" THEN SufPreview ELSE SufFinal

ArtifactOf(call) == OutputPath(call.output_name, call.quality, call.preview_mode)

\* two calls that differ in project or in mode neither write the same program
\* file nor resolve to the same artifact path; two calls for the same project
\* in the same mode write the same program file
C9_NoCollision ==
    (rin # NoRun /\ rprev # NoRun) =>
        IF rin.project_id # rprev.project_id \/ rin.op # rprev.op
        THEN /\ rin.scene_file # rprev.scene_file
             /\ ArtifactOf(rin) # ArtifactOf(rprev)
        ELSE rin.scene_file = rprev.scene_file

\* C9 as stated: program-file names and renderer output names are the project
\* identity plus the suffix _preview or _final, and calls that differ in
\* project or mode never share a program file or an artifact path.
C9_SuffixedNames ==
    /\ rin # NoRun =>
          /\ rin.scene_file =
                code_dir \o <<rin.project_id \o ModeSuffix(rin.op) \o DotPy>>
          /\ rin.output_name = rin.project_id \o ModeSuffix(rin.op)
    /\ C9_NoCollision

\* C9 as amended: program-file names are the project identity plus _preview.py
\* or _final.py; the renderer output name is the identity plus _preview for a
\* preview and the bare identity for a render; calls that differ in project or
\* mode never share a program file or an artifact path, and only calls for the
\* same project in the same mode write the same program file.
C9_Names ==
    /\ rin # NoRun =>
          /\ rin.scene_file =
                code_dir \o <<rin.project_id \o ModeSuffix(rin.op) \o DotPy>>
          /\ rin.output_name =
                IF rin.op = "preview" THEN rin.project_id \o SufPreview
                ELSE rin.project_id
    /\ C9_NoCollision

\* a render call right after a preview call for the same project
C9_Witness ==
    /\ rin # NoRun /\ rprev # NoRun
    /\ rin.op = "render" /\ rprev.op = "preview"
    /\ rin.project_id = rprev.project_id

====
